---- MODULE Spec2Model ----
(***************************************************************************)
(* qwen-code-api: a local gateway in front of an OAuth-protected upstream. *)
(* The model covers the credential store (oauth.ts), the request forwarder *)
(* and front door (server.ts), the error envelope (errors.ts) and the boot *)
(* call of main().                                                         *)
(*                                                                         *)
(* Scheduling follows the JavaScript event loop: every action is one I/O   *)
(* callback together with the synchronous code and promise continuations   *)
(* it triggers, up to the next I/O the code awaits.  The continuations of  *)
(* the callers awaiting the shared refresh promise are kept in an explicit *)
(* microtask queue (mq); no I/O callback runs while mq is non-empty.       *)
(***************************************************************************)
EXTENDS Integers, Sequences, FiniteSets, TLC

\* ---------------------------------------------------------------- bounds
NReq == 2
MaxTicks == 1
MaxChunks == 2
MaxOps == 3
MaxApply == 2

\* ------------------------------------------------------ program constants
DEFAULT_TOKEN_REFRESH_BUFFER_MS == 30000
DefaultExpiresIn == 3600
MAX_REQUEST_BODY_BYTES == 20 * 1024 * 1024
TickMs == DefaultExpiresIn * 1000

Boot == 0
Requests == 1..NReq
Procs == 0..NReq
OpIds == 1..MaxOps

\* An optional field is <<>> when absent and <<v>> when present.
None == <<>>
Some(v) == <<v>>
Has(x) == x # <<>>
Val(x) == x[1]

\* A JSON value of another type than the field is declared with (a number
\* or null for a string field, a string for a number field): a pair.
Untyped(v) == <<v, v>>

\* typeof x === 'string' and typeof x === 'number' on a field of a parsed
\* JSON object.
IsString(x) == Len(x) = 1
IsNumber(x) == Len(x) = 1

\* JavaScript truthiness of an optional string / number field.
TruthyStr(x) == Has(x) /\ Val(x) # ""
TruthyNum(x) == Has(x) /\ Val(x) # 0

HOP_BY_HOP_HEADERS ==
  {"connection", "keep-alive", "proxy-authenticate", "proxy-authorization",
   "te", "trailer", "transfer-encoding", "upgrade", "proxy-connection"}

LOCAL_OPENAI_MODELS == {"coder-model", "vision-model"}

\* ------------------------------------------------------------ credentials
QwenCredentials(at, rt, tt, ex, ru) ==
  [access_token |-> at, refresh_token |-> rt, token_type |-> tt,
   expiry_date |-> ex, resource_url |-> ru]

NoCred == QwenCredentials(None, None, None, None, None)

\* Credential files the gateway may find when it starts.
InitialCredentials ==
  { QwenCredentials(at, rt, m[1], ex, m[2]) :
      at \in {None, Some(""), Some("at0")},
      rt \in {None, Some("rt0")},
      ex \in {None, Some(DEFAULT_TOKEN_REFRESH_BUFFER_MS), Some(TickMs)},
      m \in {<<None, None>>, <<Some("Bearer"), Some("portal.qwen.ai")>>} }

\* An error value: class is "oauth" (OAuthCredentialsError), "http"
\* (HttpRequestError) or "other" (any other thrown value).
Err(class, code, status) == [class |-> class, code |-> code, statusCode |-> status]
OAuthCredentialsError(code, status) == Err("oauth", code, status)
HttpRequestError(status, code) == Err("http", code, Some(status))
OtherError(code) == Err("other", code, None)

\* Outcome of a call or of a promise.
Ok(c) == [ok |-> TRUE, cred |-> c, err |-> OtherError("none")]
Fail(e) == [ok |-> FALSE, cred |-> NoCred, err |-> e]

\* A file is a credential plus whether its bytes are the complete
\* serialization (whole) or a prefix of it.
File(c, whole) == [cred |-> c, whole |-> whole]

\* readCredentials applied to the bytes read: JSON.parse, then
\* parseCredentials.  A truncated serialization does not parse.
parseCredentials(c) ==
  IF ~TruthyStr(c.access_token) /\ ~TruthyStr(c.refresh_token)
  THEN Fail(OAuthCredentialsError("missing_credentials", None))
  ELSE Ok(c)

readCredentials(f) ==
  IF ~f.whole
  THEN Fail(OAuthCredentialsError("credentials_parse_failed", None))
  ELSE parseCredentials(f.cred)

\* isTokenValid mutated: the comparison is turned around.
isTokenValidInverted(c, t) ==
  /\ TruthyStr(c.access_token)
  /\ TruthyNum(c.expiry_date)
  /\ t > Val(c.expiry_date) - DEFAULT_TOKEN_REFRESH_BUFFER_MS

\* isTokenValid mutated: the refresh buffer is forgotten.
isTokenValidNoBuffer(c, t) ==
  /\ TruthyStr(c.access_token)
  /\ TruthyNum(c.expiry_date)
  /\ t < Val(c.expiry_date)

\* isTokenValid mutated: the access_token is not looked at.
isTokenValidNoToken(c, t) ==
  /\ TruthyNum(c.expiry_date)
  /\ t < Val(c.expiry_date) - DEFAULT_TOKEN_REFRESH_BUFFER_MS

\* Date.now() < credentials.expiry_date - this.options.tokenRefreshBufferMs
isTokenValid(c, t) ==
  /\ TruthyStr(c.access_token)
  /\ TruthyNum(c.expiry_date)
  /\ t < Val(c.expiry_date) - DEFAULT_TOKEN_REFRESH_BUFFER_MS


\* ------------------------------------------------------- HTTP responses
\* The ServerResponse of one inbound request: the status code set so far,
\* what its body is, and whether end() was called (writableEnded).
NoRes == [status |-> None, kind |-> "none", type |-> "", code |-> "", ended |-> FALSE]
JsonRes(status, body) ==
  [status |-> Some(status), kind |-> "json", type |-> body, code |-> "", ended |-> TRUE]
ErrorRes(status, type, code) ==
  [status |-> Some(status), kind |-> "error", type |-> type, code |-> code, ended |-> TRUE]
RelayRes(status, ended) ==
  [status |-> Some(status), kind |-> "relay", type |-> "", code |-> "", ended |-> ended]

\* writeJson: nothing is written once the response has ended.
writeJson(r, new) == IF r.ended THEN r ELSE new

sendOpenAIError(r, status, type, code) == writeJson(r, ErrorRes(status, type, code))
sendJson(r, status, body) == writeJson(r, JsonRes(status, body))

\* ErrorStatus mutated: a status of 500 or more is passed on as it is.
ErrorStatusNoCoerce(e) ==
  IF e.class = "http" THEN Val(e.statusCode)
  ELSE IF e.class = "oauth"
       THEN IF Has(e.statusCode) THEN Val(e.statusCode) ELSE 401
       ELSE 500

\* The status and type handleRequestError picks for a thrown value.
ErrorStatus(e) ==
  IF e.class = "http" THEN Val(e.statusCode)
  ELSE IF e.class = "oauth"
       THEN IF TruthyNum(e.statusCode) /\ Val(e.statusCode) >= 500 THEN 502
            ELSE IF Has(e.statusCode) THEN Val(e.statusCode) ELSE 401
       ELSE 500

ErrorType(e) ==
  IF e.class = "http"
  THEN IF Val(e.statusCode) = 413 THEN "invalid_request_error" ELSE "api_error"
  ELSE IF e.class = "oauth"
       THEN IF ErrorStatus(e) = 401 THEN "authentication_error" ELSE "api_error"
       ELSE "api_error"

handleRequestError(r, e) ==
  sendOpenAIError(r, ErrorStatus(e), ErrorType(e),
                  IF e.class = "other" THEN "internal_error" ELSE e.code)

\* ------------------------------------------------------ inbound requests
\* A path is its sequence of segments: "/v1/models" is <<"v1", "models">>.
Paths ==
  { <<"healthz">>, <<"v1", "models">>, <<"v1", "models", "coder-model">>,
    <<"v1", "models", "nope">>, <<"v1", "models", "coder%2Dmodel">>,
    <<"v1", "models", "%E0">>, <<"v1">>, <<"v1", "chat", "completions">>,
    <<"v1beta">>, <<"other">> }

Methods == {"GET", "HEAD", "POST"}

\* An Authorization header: scheme, number of blanks after it, and the rest.
AuthHeader(scheme, sep, token) == [scheme |-> scheme, sep |-> sep, token |-> token]
LocalApiKey == "key"
AuthHeaders ==
  { None,
    Some(AuthHeader("Bearer", 1, LocalApiKey)),
    Some(AuthHeader("bearer", 2, LocalApiKey)),
    Some(AuthHeader("Bearer", 1, "wrong")),
    Some(AuthHeader("Bearer", 0, LocalApiKey)),
    Some(AuthHeader("Basic", 1, LocalApiKey)) }

LowerCase(s) == IF s \in {"Bearer", "BEARER", "bearer"} THEN "bearer" ELSE s

\* /^Bearer\s+(.+)$/i
parseBearerToken(h) ==
  IF ~Has(h) THEN None
  ELSE IF LowerCase(Val(h).scheme) = "bearer" /\ Val(h).sep >= 1 /\ Val(h).token # ""
       THEN Some(Val(h).token)
       ELSE None

\* verifyLocalApiKey mutated: any bearer token is accepted.
verifyLocalApiKeyAny(h, apiKey) == Has(parseBearerToken(h))

verifyLocalApiKey(h, apiKey) == parseBearerToken(h) = Some(apiKey)

mayHaveBody(method) == method # "GET" /\ method # "HEAD"

IsModelsPath(path) == Len(path) >= 2 /\ path[1] = "v1" /\ path[2] = "models"

\* pathname === '/v1' || pathname.startsWith('/v1/')
IsProxiedPath(path) == Len(path) >= 1 /\ path[1] = "v1"

\* requestPath.startsWith('/v1') in buildUpstreamUrl
StartsWithV1(path) == Len(path) >= 1 /\ path[1] \in {"v1", "v1beta"}

\* decodeURIComponent on the path segments of the model: an escape sequence
\* is decoded, a malformed one throws URIError (None).
decodeURIComponent(s) ==
  CASE s = "coder%2Dmodel" -> Some("coder-model")
    [] s = "%E0" -> None
    [] OTHER -> Some(s)

\* handleLocalModelsEndpoint for a models path: the response it writes, or
\* that it threw before writing one.
handleLocalModelsEndpoint(r, method, path) ==
  IF method # "GET"
  THEN [threw |-> FALSE,
        res |-> sendOpenAIError(r, 405, "invalid_request_error", "method_not_allowed")]
  ELSE IF Len(path) = 2 THEN [threw |-> FALSE, res |-> sendJson(r, 200, "model_list")]
  ELSE IF ~Has(decodeURIComponent(path[3])) THEN [threw |-> TRUE, res |-> r]
  ELSE IF Val(decodeURIComponent(path[3])) \in LOCAL_OPENAI_MODELS
  THEN [threw |-> FALSE, res |-> sendJson(r, 200, "model")]
  ELSE [threw |-> FALSE,
        res |-> sendOpenAIError(r, 404, "invalid_request_error", "model_not_found")]

\* FrontDoor mutated: the API key is verified before /healthz is answered.
FrontDoorAuthFirst(method, path, auth) ==
  IF ~verifyLocalApiKey(auth, LocalApiKey)
  THEN [forward |-> FALSE, threw |-> FALSE,
        res |-> sendOpenAIError(NoRes, 401, "authentication_error", "invalid_api_key")]
  ELSE IF path = <<"healthz">> /\ method = "GET"
  THEN [forward |-> FALSE, threw |-> FALSE, res |-> sendJson(NoRes, 200, "status_ok")]
  ELSE IF IsModelsPath(path)
  THEN [forward |-> FALSE, threw |-> handleLocalModelsEndpoint(NoRes, method, path).threw,
        res |-> handleLocalModelsEndpoint(NoRes, method, path).res]
  ELSE IF ~IsProxiedPath(path)
  THEN [forward |-> FALSE, threw |-> FALSE,
        res |-> sendOpenAIError(NoRes, 404, "invalid_request_error", "not_found")]
  ELSE [forward |-> TRUE, threw |-> FALSE, res |-> NoRes]

\* What createProxyServer's handler does with a request before any await:
\* the response it writes at once, "forward", or that it threw.
FrontDoor(method, path, auth) ==
  IF path = <<"healthz">> /\ method = "GET"
  THEN [forward |-> FALSE, threw |-> FALSE, res |-> sendJson(NoRes, 200, "status_ok")]
  ELSE IF ~verifyLocalApiKey(auth, LocalApiKey)
  THEN [forward |-> FALSE, threw |-> FALSE,
        res |-> sendOpenAIError(NoRes, 401, "authentication_error", "invalid_api_key")]
  ELSE IF IsModelsPath(path)
  THEN [forward |-> FALSE, threw |-> handleLocalModelsEndpoint(NoRes, method, path).threw,
        res |-> handleLocalModelsEndpoint(NoRes, method, path).res]
  ELSE IF ~IsProxiedPath(path)
  THEN [forward |-> FALSE, threw |-> FALSE,
        res |-> sendOpenAIError(NoRes, 404, "invalid_request_error", "not_found")]
  ELSE [forward |-> TRUE, threw |-> FALSE, res |-> NoRes]

NoReq == [method |-> "", path |-> <<>>, auth |-> None]

\* --------------------------------------------------------- request headers
\* A header of req.headers: its name and its value, absent when undefined.
HeaderEntry(name, value) == [name |-> name, value |-> value]

\* String.prototype.toLowerCase on the header names of the model.
LowerNames ==
  [n \in {"Host", "HOST", "Content-Length", "CONTENT-LENGTH", "Connection",
          "Keep-Alive", "TE", "Trailer", "Transfer-Encoding", "TRANSFER-ENCODING",
          "Upgrade", "Proxy-Authorization", "Proxy-Authenticate",
          "Proxy-Connection", "Authorization", "User-Agent", "Accept",
          "X-Request-Id"} |->
     CASE n \in {"Host", "HOST"} -> "host"
       [] n \in {"Content-Length", "CONTENT-LENGTH"} -> "content-length"
       [] n = "Connection" -> "connection"
       [] n = "Keep-Alive" -> "keep-alive"
       [] n = "TE" -> "te"
       [] n = "Trailer" -> "trailer"
       [] n \in {"Transfer-Encoding", "TRANSFER-ENCODING"} -> "transfer-encoding"
       [] n = "Upgrade" -> "upgrade"
       [] n = "Proxy-Authorization" -> "proxy-authorization"
       [] n = "Proxy-Authenticate" -> "proxy-authenticate"
       [] n = "Proxy-Connection" -> "proxy-connection"
       [] n = "Authorization" -> "authorization"
       [] n = "User-Agent" -> "user-agent"
       [] n = "Accept" -> "accept"
       [] n = "X-Request-Id" -> "x-request-id"]

toLowerCase(name) == IF name \in DOMAIN LowerNames THEN LowerNames[name] ELSE name

\* SkippedHeader mutated: the name is compared as it was written.
SkippedHeaderExact(name) ==
  \/ name \in HOP_BY_HOP_HEADERS
  \/ name \in {"host", "authorization", "content-length"}

\* buildUpstreamHeaders: the inbound headers that are not copied.
SkippedHeader(name) ==
  \/ toLowerCase(name) \in HOP_BY_HOP_HEADERS
  \/ toLowerCase(name) \in {"host", "authorization", "content-length"}

\* A Headers object is the set of its entries, names in lower case.
HeadersSet(h, name, value) ==
  {e \in h : e.name # toLowerCase(name)} \cup {HeaderEntry(toLowerCase(name), value)}

HeadersHas(h, name) == \E e \in h : e.name = toLowerCase(name)

buildUpstreamHeaders(incomingHeaders, accessToken) ==
  LET copied == { HeaderEntry(toLowerCase(e.name), Val(e.value)) :
                    e \in {x \in incomingHeaders : ~SkippedHeader(x.name) /\ Has(x.value)} }
      headers == HeadersSet(copied, "Authorization", "Bearer " \o accessToken)
  IN IF HeadersHas(headers, "User-Agent") THEN headers
     ELSE HeadersSet(headers, "User-Agent", "qwen-code-api/0.1.0")

\* The text of an Authorization header.
AuthValue(a) ==
  a.scheme \o (IF a.sep = 0 THEN "" ELSE IF a.sep = 1 THEN " " ELSE "  ") \o a.token

\* Header sets of inbound requests: none; as Node's parser hands them over,
\* names in lower case; as written by a client, in mixed and in upper case.
HeaderSets ==
  { {},
    { HeaderEntry("host", Some("localhost:8787")), HeaderEntry("content-length", Some("2")),
      HeaderEntry("connection", Some("keep-alive")), HeaderEntry("accept", Some("*/*")),
      HeaderEntry("te", None) },
    { HeaderEntry("Host", Some("localhost:8787")), HeaderEntry("Content-Length", Some("2")),
      HeaderEntry("Connection", Some("upgrade")), HeaderEntry("Keep-Alive", Some("5")),
      HeaderEntry("TE", Some("trailers")), HeaderEntry("Trailer", Some("x")),
      HeaderEntry("Transfer-Encoding", Some("chunked")), HeaderEntry("Upgrade", Some("h2c")),
      HeaderEntry("Proxy-Authorization", Some("Basic key")),
      HeaderEntry("Proxy-Authenticate", Some("Basic")),
      HeaderEntry("Proxy-Connection", Some("keep-alive")),
      HeaderEntry("User-Agent", Some("curl/8")), HeaderEntry("X-Request-Id", Some("r1")) },
    { HeaderEntry("HOST", Some("localhost:8787")), HeaderEntry("CONTENT-LENGTH", Some("2")),
      HeaderEntry("TRANSFER-ENCODING", Some("chunked")), HeaderEntry("Accept", None) } }

CoreHeaders == { HeaderEntry("host", Some("localhost:8787")) }

\* ------------------------------------------------------ normalizeResourceUrl
\* A URL string is the sequence of its parts: blanks, a scheme with its
\* "://", a host, slashes, path segments, a query and a fragment.
DEFAULT_DASHSCOPE_BASE_URL ==
  <<"https://", "dashscope.aliyuncs.com", "/", "compatible-mode", "/", "v1">>

RECURSIVE trimStart(_)
trimStart(s) == IF s # <<>> /\ Head(s) = " " THEN trimStart(Tail(s)) ELSE s

RECURSIVE trimEnd(_)
trimEnd(s) ==
  IF s # <<>> /\ s[Len(s)] = " " THEN trimEnd(SubSeq(s, 1, Len(s) - 1)) ELSE s

trim(s) == trimEnd(trimStart(s))

\* /^https?:\/\//i.test(input)
HasProtocol(s) == s # <<>> /\ s[1] \in {"https://", "http://", "HTTPS://", "HTTP://"}

\* The URL parser writes scheme and host in lower case.
LowerUrlPart(t) ==
  CASE t = "HTTPS://" -> "https://"
    [] t = "HTTP://" -> "http://"
    [] t = "Portal.Qwen.AI" -> "portal.qwen.ai"
    [] OTHER -> t

IsSearch(t) == t = "?q=1"
IsHash(t) == t = "#f"

\* The parts of s before its query and fragment.
RECURSIVE PathPrefix(_)
PathPrefix(s) ==
  IF s = <<>> \/ IsSearch(Head(s)) \/ IsHash(Head(s)) THEN <<>>
  ELSE <<Head(s)>> \o PathPrefix(Tail(s))

\* new URL(s), for s = scheme, host, path, query, fragment.
ParseUrl(s) ==
  LET rest == SubSeq(s, 3, Len(s))
      path == PathPrefix(rest)
      after == SubSeq(rest, Len(path) + 1, Len(rest))
  IN [protocol |-> LowerUrlPart(s[1]),
      host |-> LowerUrlPart(s[2]),
      pathname |-> IF path = <<>> THEN <<"/">> ELSE path,
      search |-> IF after # <<>> /\ IsSearch(Head(after)) THEN <<Head(after)>> ELSE <<>>,
      hash |-> IF after # <<>> /\ IsHash(after[Len(after)]) THEN <<after[Len(after)]>>
               ELSE <<>>]

\* URL.prototype.toString
UrlToString(u) == <<u.protocol, u.host>> \o u.pathname \o u.search \o u.hash

\* pathname.replace(/\/+$/, '')
RECURSIVE StripTrailingSlashes(_)
StripTrailingSlashes(p) ==
  IF p # <<>> /\ p[Len(p)] = "/" THEN StripTrailingSlashes(SubSeq(p, 1, Len(p) - 1))
  ELSE p

\* EndsWithV1 mutated: /v1 is appended whatever the path ends in.
EndsWithV1Never(p) == FALSE

\* cleanPath.endsWith('/v1')
EndsWithV1(p) == Len(p) >= 2 /\ p[Len(p) - 1] = "/" /\ p[Len(p)] = "v1"

normalizeResourceUrl(resourceUrlArg) ==
  LET input == IF Has(resourceUrlArg) /\ trim(Val(resourceUrlArg)) # <<>>
               THEN trim(Val(resourceUrlArg))
               ELSE DEFAULT_DASHSCOPE_BASE_URL
      withProtocol == IF HasProtocol(input) THEN input ELSE <<"https://">> \o input
      parsed == ParseUrl(withProtocol)
      cleanPath == StripTrailingSlashes(parsed.pathname)
      pathname == IF cleanPath = <<>> \/ cleanPath = <<"/">> THEN <<"/", "v1">>
                  ELSE IF EndsWithV1(cleanPath) THEN cleanPath
                  ELSE cleanPath \o <<"/", "v1">>
      str == UrlToString([parsed EXCEPT !.pathname = pathname,
                                        !.search = <<>>, !.hash = <<>>])
  IN IF str[Len(str)] = "/" THEN SubSeq(str, 1, Len(str) - 1) ELSE str

\* Arguments of normalizeResourceUrl: none, the empty and a blank string, and
\* URLs with and without blanks around them, scheme, path, query, fragment.
UrlPaths ==
  { <<>>, <<"/">>, <<"/", "/">>, <<"/", "v1">>, <<"/", "v1", "/">>,
    <<"/", "v1", "/", "/">>, <<"/", "api">>, <<"/", "api", "/">>,
    <<"/", "api", "/", "v1">>, <<"/", "api", "/", "v1", "/">>,
    <<"/", "v1", "/", "api">>, <<"/", "apiv1">>, <<"/", "/", "v1">>,
    <<"/", "v1", "/", "v1">> }

ResourceUrls ==
  {None, Some(<<>>), Some(<<" ">>)} \cup
  { Some(b1 \o scheme \o <<host>> \o path \o query \o hash \o b2) :
      b1 \in {<<>>, <<" ">>}, b2 \in {<<>>, <<" ">>},
      scheme \in {<<>>, <<"https://">>, <<"http://">>, <<"HTTPS://">>},
      host \in {"dashscope.aliyuncs.com", "Portal.Qwen.AI"},
      path \in UrlPaths,
      query \in {<<>>, <<"?q=1">>}, hash \in {<<>>, <<"#f">>} }

\* ------------------------------------------------------------------ state
VARIABLES
  now,        \* Date.now(), in ms
  alive,      \* the gateway process is running
  credFile,   \* the file at options.credentialsFile
  slot,       \* OAuthCredentialStore.refreshPromise: 0 (null) or an operation
  ops,        \* the refreshCredentials invocations made so far
  nOps,       \* how many there are: the number of token-endpoint requests
  mq,         \* continuations queued behind a settled refresh promise
  pc,         \* where main() and each inbound request stand
  req,        \* the inbound request: method, path, Authorization header
  totalSize,  \* readRequestBody: bytes read so far
  nChunks,    \* readRequestBody: chunks read so far
  force,      \* forceRefresh of the getValidCredentials call in progress
  current,    \* what its readCredentials produced
  awaiting,   \* the refresh operation it awaits or awaited (0: none)
  peers,      \* the callers whose call overlapped it
  reads,      \* credential-file reads issued by the caller
  cred,       \* the credential the caller's last call returned
  upStatus,   \* statuses of the upstream responses received, in order
  outCalls,   \* outbound upstream calls made
  forcedCalls,\* getValidCredentials(true) calls made
  started,    \* refresh operations the caller's calls started
  res,        \* the ServerResponse
  timer,      \* the setTimeout(requestTimeoutMs) of the caller's outbound call
  sent,       \* the header set of the caller's last outbound call
  inHeaders,  \* the headers, other than Authorization, of inbound requests
  resourceUrl,\* the argument given to normalizeResourceUrl
  normalized  \* the results of applying normalizeResourceUrl again and again

storeVars == <<credFile, slot, ops, nOps, mq>>
callVars == <<force, current, awaiting, peers, reads>>
reqVars == <<req, totalSize, nChunks>>
fwdVars == <<cred, upStatus, outCalls, forcedCalls, started, res, timer, sent>>
fnVars == <<inHeaders, resourceUrl, normalized>>
vars == <<now, alive, pc, storeVars, callVars, reqVars, fwdVars, fnVars>>

\* Bodies of a 2xx answer of the token endpoint.
TokenData(at, rt, tt, ei, ru) ==
  [json |-> TRUE, access_token |-> at, refresh_token |-> rt, token_type |-> tt,
   expires_in |-> ei, resource_url |-> ru]

NoOp ==
  [pc |-> "none", current |-> NoCred, status |-> 0,
   data |-> TokenData(None, None, None, None, None), next |-> NoCred,
   outcome |-> Fail(OtherError("none")), tmp |-> "none", waiters |-> <<>>]

InitWith(creds) ==
  /\ now = 0
  /\ alive = TRUE
  /\ credFile \in {File(c, TRUE) : c \in creds}
  /\ slot = 0
  /\ ops = [k \in OpIds |-> NoOp]
  /\ nOps = 0
  /\ mq = <<>>
  /\ pc = [p \in Procs |-> IF p = Boot THEN "main" ELSE "idle"]
  /\ req = [p \in Procs |-> NoReq]
  /\ totalSize = [p \in Procs |-> 0]
  /\ nChunks = [p \in Procs |-> 0]
  /\ force = [p \in Procs |-> FALSE]
  /\ current = [p \in Procs |-> Fail(OtherError("none"))]
  /\ awaiting = [p \in Procs |-> 0]
  /\ peers = [p \in Procs |-> {}]
  /\ reads = [p \in Procs |-> 0]
  /\ cred = [p \in Procs |-> NoCred]
  /\ upStatus = [p \in Procs |-> <<>>]
  /\ outCalls = [p \in Procs |-> 0]
  /\ forcedCalls = [p \in Procs |-> 0]
  /\ started = [p \in Procs |-> 0]
  /\ res = [p \in Procs |-> NoRes]
  /\ timer = [p \in Procs |-> "none"]
  /\ sent = [p \in Procs |-> {}]

\* The gateway starts on a valid credential file or on one about to expire.
CoreCredentials ==
  { QwenCredentials(Some("at0"), Some("rt0"), Some("Bearer"), Some(TickMs), Some("portal.qwen.ai")),
    QwenCredentials(Some("at0"), Some("rt0"), Some("Bearer"),
                    Some(DEFAULT_TOKEN_REFRESH_BUFFER_MS), Some("portal.qwen.ai")) }

\* Requests carry CoreHeaders and normalizeResourceUrl is left aside.
InitFn ==
  /\ inHeaders = CoreHeaders
  /\ resourceUrl = None
  /\ normalized = <<>>

Init == InitWith(CoreCredentials) /\ InitFn

\* The gateway starts on any credential file of InitialCredentials.
InitSeq == InitWith(InitialCredentials) /\ InitFn

\* Idle mutated: an I/O callback may run while continuations are pending.
IdleAnytime == alive

\* An I/O callback or timer may run: the process lives and no promise
\* continuation is pending.
Idle == alive /\ mq = <<>>

\* req.headers of the request of p.
IncomingHeaders(p) ==
  inHeaders \cup (IF Has(req[p].auth)
                  THEN {HeaderEntry("authorization", Some(AuthValue(Val(req[p].auth))))}
                  ELSE {})

InCall(p) == pc[p] \in {"reading", "readDone", "waiting"}

\* getValidCredentials(f) is called by p: it runs up to the readFile it awaits.
BeginCall(p, f) ==
  /\ force' = [force EXCEPT ![p] = f]
  /\ current' = [current EXCEPT ![p] = Fail(OtherError("none"))]
  /\ awaiting' = [awaiting EXCEPT ![p] = 0]
  /\ peers' = [q \in Procs |->
                 IF q = p THEN {r \in Procs \ {p} : InCall(r)}
                 ELSE IF InCall(q) THEN peers[q] \cup {p} ELSE peers[q]]
  /\ reads' = [reads EXCEPT ![p] = @ + 1]

\* ShouldRetry mutated: a 401 is relayed like any other status.
ShouldRetryNever(status) == FALSE

\* ShouldRetry mutated: every error status is retried.
ShouldRetryAnyError(status) == status >= 400

\* proxyRequest: firstResponse.status !== 401 is relayed, 401 is retried.
ShouldRetry(status) == status = 401

\* requestUpstream after getValidCredentials returned outcome o to p: the
\* caller's next position, the outbound calls made and the response written.
AfterCall(p, o) ==
  IF p = Boot
  THEN [pc |-> IF o.ok THEN "listening" ELSE "exit", outCalls |-> outCalls[p], res |-> res[p]]
  ELSE IF ~o.ok
  THEN [pc |-> "done", outCalls |-> outCalls[p], res |-> handleRequestError(res[p], o.err)]
  ELSE IF ~TruthyStr(o.cred.access_token)
  THEN [pc |-> "done", outCalls |-> outCalls[p],
        res |-> handleRequestError(res[p], OAuthCredentialsError("missing_access_token", None))]
  ELSE IF ~StartsWithV1(req[p].path)
  THEN [pc |-> "done", outCalls |-> outCalls[p],
        res |-> handleRequestError(res[p], OAuthCredentialsError("invalid_proxy_path", None))]
  ELSE [pc |-> "fetch", outCalls |-> outCalls[p] + 1, res |-> res[p]]

EndCall(p, o) ==
  /\ pc' = [pc EXCEPT ![p] = AfterCall(p, o).pc]
  /\ outCalls' = [outCalls EXCEPT ![p] = AfterCall(p, o).outCalls]
  /\ res' = [res EXCEPT ![p] = AfterCall(p, o).res]
  /\ cred' = [cred EXCEPT ![p] = o.cred]
  /\ IF AfterCall(p, o).pc = "fetch"
     THEN /\ sent' = [sent EXCEPT ![p] =
                        buildUpstreamHeaders(IncomingHeaders(p), Val(o.cred.access_token))]
          /\ timer' = [timer EXCEPT ![p] = "armed"]
     ELSE UNCHANGED <<sent, timer>>

\* ------------------------------------------------------------- environment
Tick ==
  /\ alive
  /\ now < MaxTicks * TickMs
  /\ now' = now + TickMs
  /\ UNCHANGED <<fnVars, alive, pc, storeVars, callVars, reqVars, fwdVars>>

\* main(): the boot call getValidCredentials(false), before the server listens.
Main ==
  /\ Idle
  /\ pc[Boot] = "main"
  /\ pc' = [pc EXCEPT ![Boot] = "reading"]
  /\ BeginCall(Boot, FALSE)
  /\ UNCHANGED <<fnVars, now, alive, storeVars, reqVars, fwdVars>>

\* The promise of the async request handler rejects and nothing handles the
\* rejection: the process goes on without answering the request, or, with
\* Node's default for unhandled rejections, terminates.
UnhandledRejection == {TRUE, FALSE}

\* An inbound request reaches the handler of createProxyServer.  A throw
\* outside the try block of the handler rejects the handler's promise.
Arrive(p, method, path, auth) ==
  /\ Idle
  /\ pc[Boot] = "listening"
  /\ pc[p] = "idle"
  /\ \A q \in Requests : q < p => pc[q] # "idle"
  /\ req' = [req EXCEPT ![p] = [method |-> method, path |-> path, auth |-> auth]]
  /\ LET fd == FrontDoor(method, path, auth) IN
       IF fd.threw
       THEN /\ pc' = [pc EXCEPT ![p] = "unhandled"]
            /\ alive' \in UnhandledRejection
            /\ UNCHANGED <<res, callVars>>
       ELSE IF ~fd.forward
       THEN /\ pc' = [pc EXCEPT ![p] = "done"]
            /\ res' = [res EXCEPT ![p] = fd.res]
            /\ UNCHANGED <<alive, callVars>>
       ELSE IF mayHaveBody(method)
       THEN /\ pc' = [pc EXCEPT ![p] = "body"]
            /\ UNCHANGED <<alive, res, callVars>>
       ELSE /\ pc' = [pc EXCEPT ![p] = "reading"]
            /\ BeginCall(p, FALSE)
            /\ UNCHANGED <<alive, res>>
  /\ UNCHANGED <<fnVars, now, storeVars, totalSize, nChunks,
                 cred, upStatus, outCalls, forcedCalls, started, timer, sent>>

\* ------------------------------------------------------- readRequestBody
ChunkSizes == {1, MAX_REQUEST_BODY_BYTES}

\* BodyTooLarge mutated: a body of exactly the cap is refused.
BodyTooLargeAtCap(size) == size >= MAX_REQUEST_BODY_BYTES

\* totalSize > MAX_REQUEST_BODY_BYTES
BodyTooLarge(size) == size > MAX_REQUEST_BODY_BYTES

\* One chunk of the inbound body arrives (the for-await loop body).
BodyChunk(p, n) ==
  /\ Idle
  /\ pc[p] = "body"
  /\ nChunks[p] < MaxChunks
  /\ totalSize' = [totalSize EXCEPT ![p] = @ + n]
  /\ nChunks' = [nChunks EXCEPT ![p] = @ + 1]
  /\ IF BodyTooLarge(totalSize[p] + n)
     THEN /\ pc' = [pc EXCEPT ![p] = "done"]
          /\ res' = [res EXCEPT ![p] =
                       handleRequestError(@, HttpRequestError(413, "request_body_too_large"))]
     ELSE UNCHANGED <<pc, res>>
  /\ UNCHANGED <<fnVars, now, alive, storeVars, callVars, req,
                 cred, upStatus, outCalls, forcedCalls, started, timer, sent>>

\* The inbound body ends: proxyRequest starts its first attempt.
BodyEnd(p) ==
  /\ Idle
  /\ pc[p] = "body"
  /\ pc' = [pc EXCEPT ![p] = "reading"]
  /\ BeginCall(p, FALSE)
  /\ UNCHANGED <<fnVars, now, alive, storeVars, reqVars, fwdVars>>

\* ---------------------------------------------------- getValidCredentials
\* fs.readFile reads the bytes of the credential file.
ReadDisk(p) ==
  /\ Idle
  /\ pc[p] = "reading"
  /\ pc' = [pc EXCEPT ![p] = "readDone"]
  /\ current' = [current EXCEPT ![p] = readCredentials(credFile)]
  /\ UNCHANGED <<fnVars, now, alive, storeVars, force, awaiting, peers, reads, reqVars, fwdVars>>

\* MissingRefreshToken mutated: the refresh_token is never looked at.
MissingRefreshTokenNever(c) == FALSE

\* !current.refresh_token
MissingRefreshToken(c) == ~TruthyStr(c.refresh_token)

\* NeedsNewRefresh mutated: a refresh is started whatever the slot holds.
NeedsNewRefreshAlways(s) == TRUE

\* !this.refreshPromise
NeedsNewRefresh(s) == s = 0

\* refreshCredentials(c) up to the fetch it awaits.
NewOp(c, p) ==
  [NoOp EXCEPT !.pc = "fetch", !.current = c, !.waiters = <<p>>]

\* ReturnsCurrent mutated: the forceRefresh argument is ignored.
ReturnsCurrentIgnoreForce(forceRefresh, c, t) == isTokenValid(c, t)

\* !forceRefresh && this.isTokenValid(current)
ReturnsCurrent(forceRefresh, c, t) == ~forceRefresh /\ isTokenValid(c, t)

\* readCredentials resolves and getValidCredentials runs on: it returns the
\* credential read, throws, or awaits the refresh promise it started or found.
ReadResolve(p) ==
  /\ Idle
  /\ pc[p] = "readDone"
  /\ LET r == current[p] IN
       IF ~r.ok
       THEN /\ EndCall(p, r)
            /\ UNCHANGED <<storeVars, started, awaiting>>
       ELSE IF ReturnsCurrent(force[p], r.cred, now)
       THEN /\ EndCall(p, Ok(r.cred))
            /\ UNCHANGED <<storeVars, started, awaiting>>
       ELSE IF MissingRefreshToken(r.cred)
       THEN /\ EndCall(p, Fail(OAuthCredentialsError("missing_refresh_token", None)))
            /\ UNCHANGED <<storeVars, started, awaiting>>
       ELSE IF NeedsNewRefresh(slot)
       THEN /\ nOps < MaxOps
            /\ nOps' = nOps + 1
            /\ slot' = nOps + 1
            /\ ops' = [ops EXCEPT ![nOps + 1] = NewOp(r.cred, p)]
            /\ started' = [started EXCEPT ![p] = @ + 1]
            /\ awaiting' = [awaiting EXCEPT ![p] = nOps + 1]
            /\ pc' = [pc EXCEPT ![p] = "waiting"]
            /\ UNCHANGED <<credFile, mq, cred, outCalls, res, timer, sent>>
       ELSE /\ ops' = [ops EXCEPT ![slot].waiters = Append(@, p)]
            /\ awaiting' = [awaiting EXCEPT ![p] = slot]
            /\ pc' = [pc EXCEPT ![p] = "waiting"]
            /\ mq' = IF ops[slot].pc = "settled" THEN Append(mq, p) ELSE mq
            /\ UNCHANGED <<credFile, slot, nOps, started, cred, outCalls, res, timer, sent>>
  /\ UNCHANGED <<fnVars, now, alive, force, current, peers, reads, reqVars, upStatus, forcedCalls>>

\* AwaitedOutcome mutated: a caller that joined the operation of another
\* returns the credential it read itself.
AwaitedOutcomeOwnRead(p) ==
  IF ops[awaiting[p]].outcome.ok /\ started[p] = 0
  THEN current[p]
  ELSE ops[awaiting[p]].outcome

\* AwaitedOutcome mutated: when the awaited refresh fails, the caller
\* returns the credential it read itself.
AwaitedOutcomeSwallowError(p) ==
  IF ops[awaiting[p]].outcome.ok THEN ops[awaiting[p]].outcome ELSE current[p]

\* return await this.refreshPromise
AwaitedOutcome(p) == ops[awaiting[p]].outcome

\* SlotAfterFinally mutated: the finally block leaves the slot as it is.
SlotAfterFinallyKept(s) == s

\* finally { this.refreshPromise = null }
SlotAfterFinally(s) == 0

\* The refresh promise awaited by p has settled: the finally block clears the
\* slot and the call returns or throws the promise's outcome.
Resume(p) ==
  /\ alive
  /\ mq # <<>>
  /\ p = Head(mq)
  /\ pc[p] = "waiting"
  /\ mq' = Tail(mq)
  /\ slot' = SlotAfterFinally(slot)
  /\ EndCall(p, AwaitedOutcome(p))
  /\ UNCHANGED <<fnVars, now, alive, credFile, ops, nOps, callVars, reqVars,
                 upStatus, forcedCalls, started>>

\* ----------------------------------------------------- refreshCredentials
\* The promise of operation k settles with outcome o: the continuations of
\* its awaiters are queued in the order they started to await.
Settle(k, o) ==
  /\ ops' = [ops EXCEPT ![k] = [NoOp EXCEPT !.pc = "settled", !.outcome = o]]
  /\ mq' = ops[k].waiters

TokenStatuses == {200, 400, 401, 500}

\* The access token the token endpoint issues in answer to operation k.
FreshToken(k) == "at" \o ToString(k)

TokenBodies(k) ==
  { [json |-> FALSE, access_token |-> None, refresh_token |-> None,
     token_type |-> None, expires_in |-> None, resource_url |-> None],
    TokenData(None, None, None, None, None),
    TokenData(Some(""), None, None, None, None),
    TokenData(Some(FreshToken(k)), None, None, Some(0), None),
    TokenData(Some(FreshToken(k)), Some("rt1"), Some("bearer"),
              Some(2 * DefaultExpiresIn), Some("dashscope.aliyuncs.com")) }

\* Two of them: a token with every optional field absent, and no token.
CoreTokenBodies(k) ==
  { TokenData(Some(FreshToken(k)), None, None, None, None),
    TokenData(None, None, None, None, None) }

\* Every combination of fields of a JSON answer: absent, a string or number
\* as declared, empty, non-positive, or of another type.
NextTokenBodies(k) ==
  { TokenData(at, rt, tt, ei, ru) :
      at \in {Some(FreshToken(k)), Untyped(FreshToken(k))},
      rt \in {None, Some("rt1"), Some(""), Untyped("rt1")},
      tt \in {None, Some("bearer"), Untyped("bearer")},
      ei \in {None, Some(0), Some(0 - 60), Some(2 * DefaultExpiresIn),
              Untyped(2 * DefaultExpiresIn)},
      ru \in {None, Some("dashscope.aliyuncs.com"), Untyped("dashscope.aliyuncs.com")} }

\* nextCredentials mutated: the fields of the answer are taken as they are,
\* nothing is carried over from the prior credential.
nextCredentialsNoCarry(c, tokenData, t) ==
  QwenCredentials(
    tokenData.access_token,
    tokenData.refresh_token,
    tokenData.token_type,
    Some(t + (IF IsNumber(tokenData.expires_in) /\ Val(tokenData.expires_in) > 0
              THEN Val(tokenData.expires_in) ELSE DefaultExpiresIn) * 1000),
    tokenData.resource_url)

\* The credential a successful refresh builds from the prior one.
nextCredentials(c, tokenData, t) ==
  QwenCredentials(
    tokenData.access_token,
    IF IsString(tokenData.refresh_token) THEN tokenData.refresh_token ELSE c.refresh_token,
    IF IsString(tokenData.token_type) THEN tokenData.token_type ELSE c.token_type,
    Some(t + (IF IsNumber(tokenData.expires_in) /\ Val(tokenData.expires_in) > 0
              THEN Val(tokenData.expires_in) ELSE DefaultExpiresIn) * 1000),
    IF IsString(tokenData.resource_url) THEN tokenData.resource_url ELSE c.resource_url)

\* fetch(QWEN_OAUTH_TOKEN_ENDPOINT) rejects.
RefreshFetchFail(k) ==
  /\ Idle
  /\ ops[k].pc = "fetch"
  /\ Settle(k, Fail(OAuthCredentialsError("refresh_network_error", None)))
  /\ UNCHANGED <<fnVars, now, alive, pc, credFile, slot, nOps, callVars, reqVars, fwdVars>>

\* fetch resolves with the status line; the code awaits response.text().
RefreshHeaders(k, s) ==
  /\ Idle
  /\ ops[k].pc = "fetch"
  /\ ops' = [ops EXCEPT ![k].pc = "text", ![k].status = s]
  /\ UNCHANGED <<fnVars, now, alive, pc, credFile, slot, nOps, mq, callVars, reqVars, fwdVars>>

\* response.text() rejects: the value thrown is no OAuthCredentialsError.
RefreshBodyFail(k) ==
  /\ Idle
  /\ ops[k].pc = "text"
  /\ Settle(k, Fail(OtherError("body_read_failed")))
  /\ UNCHANGED <<fnVars, now, alive, pc, credFile, slot, nOps, callVars, reqVars, fwdVars>>

\* response.text() resolves: status check, JSON.parse, access_token check,
\* nextCredentials, and saveCredentials up to the mkdir it awaits.
RefreshBody(k, tokenData) ==
  /\ Idle
  /\ ops[k].pc = "text"
  /\ IF ops[k].status # 200
     THEN Settle(k, Fail(OAuthCredentialsError("refresh_failed", Some(ops[k].status))))
     ELSE IF ~tokenData.json
     THEN Settle(k, Fail(OAuthCredentialsError("refresh_parse_failed", None)))
     ELSE IF ~TruthyStr(tokenData.access_token) \/ ~IsString(tokenData.access_token)
     THEN Settle(k, Fail(OAuthCredentialsError("refresh_missing_access_token", None)))
     ELSE /\ ops' = [ops EXCEPT ![k].pc = "mkdir",
                                ![k].data = tokenData,
                                ![k].next = nextCredentials(ops[k].current, tokenData, now)]
          /\ UNCHANGED mq
  /\ UNCHANGED <<fnVars, now, alive, pc, credFile, slot, nOps, callVars, reqVars, fwdVars>>

\* -------------------------------------------------------- saveCredentials
\* JSON.stringify(credentials): the keys of the serialization.  A property
\* whose value is undefined is left out.
SerializedKeys(c) == {k \in DOMAIN c : Has(c[k])}

\* WriteTempBytes mutated: the serialization is written over the target.
WriteInPlace(f, next) == File(next, FALSE)

\* The target file while fs.writeFile writes the temporary file: untouched.
WriteTempBytes(f, next) == f

\* The target file after fs.rename(tempFilePath, credentialsFile).
RenameOver(f, next) == File(next, TRUE)

\* fs.mkdir resolves; fs.writeFile(tempFilePath) is issued.
MkdirDone(k) ==
  /\ Idle
  /\ ops[k].pc = "mkdir"
  /\ ops' = [ops EXCEPT ![k].pc = "write"]
  /\ UNCHANGED <<fnVars, now, alive, pc, credFile, slot, nOps, mq, callVars, reqVars, fwdVars>>

\* fs.mkdir, fs.writeFile or fs.rename rejects: saveCredentials throws a value
\* that is no OAuthCredentialsError; a temporary file may stay behind.
SaveFail(k) ==
  /\ Idle
  /\ ops[k].pc \in {"mkdir", "write", "rename"}
  /\ ops[k].tmp # "renamed"
  /\ Settle(k, Fail(OtherError("save_failed")))
  /\ UNCHANGED <<fnVars, now, alive, pc, credFile, slot, nOps, callVars, reqVars, fwdVars>>

\* The file system has written part of the temporary file.
WriteDisk(k) ==
  /\ Idle
  /\ ops[k].pc = "write"
  /\ ops[k].tmp = "none"
  /\ ops' = [ops EXCEPT ![k].tmp = "partial"]
  /\ credFile' = WriteTempBytes(credFile, ops[k].next)
  /\ UNCHANGED <<fnVars, now, alive, pc, slot, nOps, mq, callVars, reqVars, fwdVars>>

\* fs.writeFile resolves: the temporary file is complete; fs.rename is issued.
WriteDone(k) ==
  /\ Idle
  /\ ops[k].pc = "write"
  /\ ops[k].tmp = "partial"
  /\ ops' = [ops EXCEPT ![k].pc = "rename", ![k].tmp = "full"]
  /\ UNCHANGED <<fnVars, now, alive, pc, credFile, slot, nOps, mq, callVars, reqVars, fwdVars>>

\* The file system renames the temporary file over the credential file.
RenameDisk(k) ==
  /\ Idle
  /\ ops[k].pc = "rename"
  /\ ops[k].tmp = "full"
  /\ ops' = [ops EXCEPT ![k].tmp = "renamed"]
  /\ credFile' = RenameOver(credFile, ops[k].next)
  /\ UNCHANGED <<fnVars, now, alive, pc, slot, nOps, mq, callVars, reqVars, fwdVars>>

\* fs.rename resolves: refreshCredentials returns nextCredentials.
RenameDone(k) ==
  /\ Idle
  /\ ops[k].pc = "rename"
  /\ ops[k].tmp = "renamed"
  /\ Settle(k, Ok(ops[k].next))
  /\ UNCHANGED <<fnVars, now, alive, pc, credFile, slot, nOps, callVars, reqVars, fwdVars>>

\* The process is interrupted while a credential is being saved.
Crash ==
  /\ alive
  /\ \E k \in OpIds : ops[k].pc \in {"mkdir", "write", "rename"}
  /\ alive' = FALSE
  /\ UNCHANGED <<fnVars, now, pc, storeVars, callVars, reqVars, fwdVars>>

\* --------------------------------------------------------- requestUpstream
UpstreamStatuses == {200, 401, 500}

\* clearTimeout mutated: the timer of the attempt is left armed.
clearTimeoutSkipped(t) == t

\* finally { clearTimeout(timeout) }: the timer of the attempt is disarmed.
clearTimeout(t) == "cleared"

\* The upstream answers the outbound call of p with status s.  The first
\* answer, when it is a 401, is discarded and requestUpstream(forceRefresh =
\* true) is called; any other answer is relayed: status and headers are set.
UpstreamResponse(p, s) ==
  /\ Idle
  /\ pc[p] = "fetch"
  /\ upStatus' = [upStatus EXCEPT ![p] = Append(@, s)]
  /\ timer' = [timer EXCEPT ![p] = clearTimeout(@)]
  /\ IF outCalls[p] = 1 /\ ShouldRetry(s)
     THEN /\ pc' = [pc EXCEPT ![p] = "reading"]
          /\ forcedCalls' = [forcedCalls EXCEPT ![p] = @ + 1]
          /\ BeginCall(p, TRUE)
          /\ UNCHANGED res
     ELSE /\ pc' = [pc EXCEPT ![p] = "relay"]
          /\ res' = [res EXCEPT ![p] = RelayRes(s, FALSE)]
          /\ UNCHANGED <<forcedCalls, callVars>>
  /\ UNCHANGED <<fnVars, now, alive, storeVars, reqVars, cred, outCalls, started, sent>>

\* Errors fetch may reject with, other than the abort of the timer: a name
\* and whether the message contains 'aborted'.
FetchError(name, aborted) == [name |-> name, aborted |-> aborted]
FetchErrors == { FetchError("TypeError", FALSE), FetchError("Error", TRUE) }

isAbortError(e) == e.name = "AbortError" \/ e.aborted

UpstreamError(e) ==
  IF isAbortError(e) THEN HttpRequestError(504, "upstream_timeout")
  ELSE HttpRequestError(502, "upstream_unavailable")

\* The timer of requestTimeoutMs of an attempt fires: controller.abort()
\* rejects the fetch of that attempt, when it is still pending.
UpstreamTimeout(p) ==
  /\ Idle
  /\ timer[p] = "armed"
  /\ timer' = [timer EXCEPT ![p] = "fired"]
  /\ IF pc[p] = "fetch"
     THEN /\ pc' = [pc EXCEPT ![p] = "done"]
          /\ res' = [res EXCEPT ![p] =
                       handleRequestError(@, UpstreamError(FetchError("AbortError", TRUE)))]
     ELSE UNCHANGED <<pc, res>>
  /\ UNCHANGED <<fnVars, now, alive, storeVars, callVars, reqVars,
                 cred, upStatus, outCalls, forcedCalls, started, sent>>

\* The outbound call fails for another reason.
UpstreamFail(p, e) ==
  /\ Idle
  /\ pc[p] = "fetch"
  /\ pc' = [pc EXCEPT ![p] = "done"]
  /\ timer' = [timer EXCEPT ![p] = clearTimeout(@)]
  /\ res' = [res EXCEPT ![p] = handleRequestError(@, UpstreamError(e))]
  /\ UNCHANGED <<fnVars, now, alive, storeVars, callVars, reqVars,
                 cred, upStatus, outCalls, forcedCalls, started, sent>>

\* The relayed body has been streamed and the response ends.
RelayEnd(p) ==
  /\ Idle
  /\ pc[p] = "relay"
  /\ pc' = [pc EXCEPT ![p] = "done"]
  /\ res' = [res EXCEPT ![p].ended = TRUE]
  /\ UNCHANGED <<fnVars, now, alive, storeVars, callVars, reqVars,
                 cred, upStatus, outCalls, forcedCalls, started, timer, sent>>

\* res.setHeader throws ERR_HTTP_HEADERS_SENT once the headers have been
\* flushed, which the first chunk written to the response does.
setHeaderThrows(headersSent) == headersSent

\* pipeline(upstream body, res) rejects while the body is relayed: the
\* upstream stream fails or the client closes the connection.  The catch
\* block of the handler calls handleRequestError on the response, which has
\* not ended: writeJson sets the status and calls setHeader.  When
\* setHeader throws, the throw leaves the catch block and the handler's
\* promise rejects; otherwise the envelope is written over the relayed
\* status.
RelayFail(p, headersSent) ==
  /\ Idle
  /\ pc[p] = "relay"
  /\ IF setHeaderThrows(headersSent)
     THEN /\ pc' = [pc EXCEPT ![p] = "unhandled"]
          /\ alive' \in UnhandledRejection
          /\ UNCHANGED res
     ELSE /\ pc' = [pc EXCEPT ![p] = "done"]
          /\ res' = [res EXCEPT ![p] = handleRequestError(@, OtherError("relay_failed"))]
          /\ UNCHANGED alive
  /\ UNCHANGED <<fnVars, now, storeVars, callVars, reqVars,
                 cred, upStatus, outCalls, forcedCalls, started, timer, sent>>

\* The objects of a finished request are released.
Forget(p) ==
  /\ Idle
  /\ pc[p] = "done"
  /\ pc' = [pc EXCEPT ![p] = "idle"]
  /\ req' = [req EXCEPT ![p] = NoReq]
  /\ totalSize' = [totalSize EXCEPT ![p] = 0]
  /\ nChunks' = [nChunks EXCEPT ![p] = 0]
  /\ force' = [force EXCEPT ![p] = FALSE]
  /\ current' = [current EXCEPT ![p] = Fail(OtherError("none"))]
  /\ awaiting' = [awaiting EXCEPT ![p] = 0]
  /\ peers' = [q \in Procs |-> IF q = p THEN {} ELSE peers[q] \ {p}]
  /\ reads' = [reads EXCEPT ![p] = 0]
  /\ cred' = [cred EXCEPT ![p] = NoCred]
  /\ upStatus' = [upStatus EXCEPT ![p] = <<>>]
  /\ outCalls' = [outCalls EXCEPT ![p] = 0]
  /\ forcedCalls' = [forcedCalls EXCEPT ![p] = 0]
  /\ started' = [started EXCEPT ![p] = 0]
  /\ res' = [res EXCEPT ![p] = NoRes]
  /\ timer' = [timer EXCEPT ![p] = "none"]
  /\ sent' = [sent EXCEPT ![p] = {}]
  /\ UNCHANGED <<fnVars, now, alive, storeVars>>

\* normalizeResourceUrl is applied to resourceUrl, or to its own last result.
Normalize ==
  /\ Len(normalized) < MaxApply
  /\ normalized' = Append(normalized,
                          normalizeResourceUrl(IF normalized = <<>> THEN resourceUrl
                                               ELSE Some(normalized[Len(normalized)])))
  /\ UNCHANGED <<now, alive, pc, storeVars, callVars, reqVars, fwdVars,
                 inHeaders, resourceUrl>>

\* ----------------------------------------------------------- specification
\* getValidCredentials and the continuation of its caller.
CallStep ==
  \/ Main
  \/ \E p \in Procs : ReadDisk(p)
  \/ \E p \in Procs : ReadResolve(p)
  \/ \E p \in Requests : UpstreamTimeout(p)
  \/ \E p \in Requests : RelayEnd(p)

\* The steps of a refresh operation that take no input.
RefreshStep ==
  \/ Tick
  \/ Crash
  \/ \E p \in Procs : Resume(p)
  \/ \E k \in OpIds : RefreshFetchFail(k)
  \/ \E k \in OpIds : RefreshBodyFail(k)
  \/ \E k \in OpIds : MkdirDone(k)
  \/ \E k \in OpIds : SaveFail(k)
  \/ \E k \in OpIds : WriteDisk(k)
  \/ \E k \in OpIds : WriteDone(k)
  \/ \E k \in OpIds : RenameDisk(k)
  \/ \E k \in OpIds : RenameDone(k)

\* Spec: concurrent forwarded requests, with few kinds of answers.
CoreMethods == {"POST"}
CorePaths == { <<"v1", "chat", "completions">> }
CoreAuthHeaders == { Some(AuthHeader("Bearer", 1, LocalApiKey)) }
CoreChunkSizes == { MAX_REQUEST_BODY_BYTES }
CoreTokenStatuses == {200, 401}
CoreUpstreamStatuses == {200, 401}
CoreFetchErrors == { FetchError("TypeError", FALSE) }

Next ==
  \/ CallStep
  \/ RefreshStep
  \/ \E p \in Requests, m \in CoreMethods, path \in CorePaths, a \in CoreAuthHeaders :
       Arrive(p, m, path, a)
  \/ \E p \in Requests, n \in CoreChunkSizes : BodyChunk(p, n)
  \/ \E p \in Requests : BodyEnd(p)
  \/ \E k \in OpIds, s \in CoreTokenStatuses : RefreshHeaders(k, s)
  \/ \E k \in OpIds : \E d \in CoreTokenBodies(k) : RefreshBody(k, d)
  \/ \E p \in Requests : \E s \in CoreUpstreamStatuses : UpstreamResponse(p, s)
  \/ \E p \in Requests : \E e \in CoreFetchErrors : UpstreamFail(p, e)

Spec == Init /\ [][Next]_vars

\* SpecSeq: bodiless forwarded requests handled one after the other by the
\* first request slot, with every kind of credential file and of answer.
First == 1
SeqMethods == {"GET"}

NextSeq ==
  \/ CallStep
  \/ RefreshStep
  \/ \E m \in SeqMethods, path \in CorePaths, a \in CoreAuthHeaders : Arrive(First, m, path, a)
  \/ \E k \in OpIds, s \in TokenStatuses : RefreshHeaders(k, s)
  \/ \E k \in OpIds : \E d \in TokenBodies(k) : RefreshBody(k, d)
  \/ \E s \in UpstreamStatuses : UpstreamResponse(First, s)
  \/ \E e \in FetchErrors : UpstreamFail(First, e)
  \/ Forget(First)

SpecSeq == InitSeq /\ [][NextSeq]_vars

\* SpecFront: requests of every shape handled by the front door, with a
\* credential that stays valid and an upstream that accepts it.
FrontCredentials ==
  { QwenCredentials(Some("at0"), Some("rt0"), Some("Bearer"), Some(TickMs), Some("portal.qwen.ai")) }
FrontUpstreamStatuses == {200, 500}

InitFront == InitWith(FrontCredentials) /\ InitFn

NextFront ==
  \/ CallStep
  \/ \E p \in Requests, m \in Methods, path \in Paths, a \in AuthHeaders : Arrive(p, m, path, a)
  \/ \E p \in Requests, n \in ChunkSizes : BodyChunk(p, n)
  \/ \E p \in Requests : BodyEnd(p)
  \/ \E p \in Requests : \E s \in FrontUpstreamStatuses : UpstreamResponse(p, s)
  \/ \E p \in Requests : \E e \in FetchErrors : UpstreamFail(p, e)
  \/ \E p \in Requests, headersSent \in BOOLEAN : RelayFail(p, headersSent)
  \/ \E p \in Requests : Forget(p)

SpecFront == InitFront /\ [][NextFront]_vars

\* SpecHdr: bodiless forwarded requests handled one after the other, with
\* every header set of HeaderSets and few kinds of answers.
HdrAuthHeaders ==
  { Some(AuthHeader("Bearer", 1, LocalApiKey)), Some(AuthHeader("bearer", 2, LocalApiKey)) }

InitHdr ==
  /\ InitWith(CoreCredentials)
  /\ inHeaders \in HeaderSets
  /\ resourceUrl = None
  /\ normalized = <<>>

NextHdr ==
  \/ CallStep
  \/ RefreshStep
  \/ \E m \in SeqMethods, path \in CorePaths, a \in HdrAuthHeaders : Arrive(First, m, path, a)
  \/ \E k \in OpIds, s \in CoreTokenStatuses : RefreshHeaders(k, s)
  \/ \E k \in OpIds : \E d \in CoreTokenBodies(k) : RefreshBody(k, d)
  \/ \E s \in CoreUpstreamStatuses : UpstreamResponse(First, s)
  \/ \E e \in CoreFetchErrors : UpstreamFail(First, e)
  \/ Forget(First)

SpecHdr == InitHdr /\ [][NextHdr]_vars

\* SpecUrl: normalizeResourceUrl applied to every argument of ResourceUrls
\* and then to its own results.
InitUrl ==
  /\ InitWith(FrontCredentials)
  /\ inHeaders = CoreHeaders
  /\ resourceUrl \in ResourceUrls
  /\ normalized = <<>>

NextUrl == Normalize

SpecUrl == InitUrl /\ [][NextUrl]_vars

\* SpecNext: the boot call alone, with every kind of credential file and
\* every combination of fields in the token endpoint's answer.
InitNext == InitWith(InitialCredentials) /\ InitFn

NextNext ==
  \/ Tick
  \/ Main
  \/ ReadDisk(Boot)
  \/ ReadResolve(Boot)
  \/ Resume(Boot)
  \/ \E k \in OpIds : RefreshHeaders(k, 200)
  \/ \E k \in OpIds : \E d \in NextTokenBodies(k) : RefreshBody(k, d)
  \/ \E k \in OpIds : MkdirDone(k)
  \/ \E k \in OpIds : WriteDisk(k)
  \/ \E k \in OpIds : WriteDone(k)
  \/ \E k \in OpIds : RenameDisk(k)
  \/ \E k \in OpIds : RenameDone(k)

SpecNext == InitNext /\ [][NextNext]_vars

\* ------------------------------------------------------------------ claims
\* Refresh requests to the token endpoint that are in flight: fetch was
\* called and the answer has not been read to its end.
InFlight == {k \in OpIds : ops[k].pc \in {"fetch", "text"}}

\* The call of p has returned or thrown.
Returned(p) == pc[p] \in {"listening", "exit", "fetch", "relay", "done"}

\* C1: in every reachable state at most one refresh request to the token
\* endpoint is in flight, however many getValidCredentials calls, forced or
\* not, are interleaved.
C1_OneRefreshInFlight == Cardinality(InFlight) <= 1

\* C1 witness: a forced and an unforced call both await while one refresh
\* request is in flight.
C1_Witness ==
  \E p, q \in Requests :
    /\ pc[p] = "waiting" /\ pc[q] = "waiting"
    /\ force[p] /\ ~force[q]
    /\ Cardinality(InFlight) = 1

\* C2 as stated: any two calls that were in progress at the same time, both
\* needed a refresh and both returned a credential were served by one and the
\* same refresh network call, and returned the same credential.
C2_Original ==
  \A p, q \in Procs :
    (/\ q \in peers[p] /\ p \in peers[q]
     /\ awaiting[p] # 0 /\ awaiting[q] # 0
     /\ Returned(p) /\ Returned(q)
     /\ TruthyStr(cred[p].access_token) /\ TruthyStr(cred[q].access_token))
      => awaiting[p] = awaiting[q] /\ cred[p] = cred[q]

\* C2 amended: callers that need a refresh and reach the slot check while a
\* refresh operation is outstanding all await that one operation, the only
\* one outstanding, and those that have returned from the same operation
\* returned the same credential.
C2_SingleFlight ==
  /\ \A p \in Procs : pc[p] = "waiting" /\ mq = <<>> => awaiting[p] = slot /\ slot # 0
  /\ \A p, q \in Procs :
       (awaiting[p] # 0 /\ awaiting[p] = awaiting[q] /\ Returned(p) /\ Returned(q))
         => cred[p] = cred[q]

\* C2 witness: two requests awaited the same refresh operation and both sent
\* their outbound call with its credential.
C2_Witness ==
  \E p, q \in Requests :
    /\ p # q
    /\ awaiting[p] # 0 /\ awaiting[p] = awaiting[q]
    /\ pc[p] = "fetch" /\ pc[q] = "fetch"
    /\ cred[p] = cred[q] /\ TruthyStr(cred[p].access_token)
    /\ nOps = 1

\* The response relayed to the client of p is the upstream response number i.
Relayed(p, i) ==
  /\ pc[p] \in {"relay", "done"}
  /\ res[p].kind = "relay"
  /\ Len(upStatus[p]) = i
  /\ res[p].status = Some(upStatus[p][i])

FirstIs401(p) == Len(upStatus[p]) >= 1 /\ upStatus[p][1] = 401

\* C3 as stated: a request whose first upstream response is 401 and whose
\* second is 200 made exactly one refresh network call and two outbound
\* calls, and its client receives the 200.
C3_Original ==
  \A p \in Requests :
    upStatus[p] = <<401, 200>>
      => started[p] = 1 /\ outCalls[p] = 2 /\ Relayed(p, 2)

\* C3 amended: after a first upstream response of 401 the request makes
\* exactly one forced getValidCredentials call, served by one refresh
\* operation, and at most two outbound calls; a response is relayed only
\* after the second outbound call and it is the second upstream response,
\* 200 or 401, with its status; the refresh network calls the request starts
\* are at most two, one for each of its getValidCredentials calls.
C3_RetryOnce ==
  \A p \in Requests :
    FirstIs401(p) =>
      /\ forcedCalls[p] = 1
      /\ outCalls[p] <= 2
      /\ Len(upStatus[p]) <= 2
      /\ started[p] <= 2
      /\ outCalls[p] = 2 => awaiting[p] # 0 /\ force[p]
      /\ res[p].kind = "relay" => outCalls[p] = 2 /\ Relayed(p, 2)
      /\ Len(upStatus[p]) = 2 => Relayed(p, 2)

\* C3 witness: 401, then 200: the client has the 200, after two outbound
\* calls and two refresh network calls started by this request.
C3_Witness ==
  \E p \in Requests :
    /\ upStatus[p] = <<401, 200>>
    /\ pc[p] = "done" /\ res[p] = RelayRes(200, TRUE)
    /\ outCalls[p] = 2 /\ started[p] = 2

\* C4: a first upstream response other than 401 is relayed with its status,
\* and the request makes no second outbound call and no forced refresh.
C4_NoRetryUnless401 ==
  \A p \in Requests :
    (Len(upStatus[p]) >= 1 /\ upStatus[p][1] # 401)
      => Relayed(p, 1) /\ outCalls[p] = 1 /\ forcedCalls[p] = 0

\* C4 witness: an upstream error 500 has been relayed.
C4_Witness ==
  \E p \in Requests :
    upStatus[p] = <<500>> /\ pc[p] = "done" /\ res[p] = RelayRes(500, TRUE)

\* The credential has an access_token and expiry_date > t + refreshBufferMs.
FreshAt(c, t) ==
  /\ Has(c.access_token) /\ Val(c.access_token) # ""
  /\ Has(c.expiry_date)
  /\ Val(c.expiry_date) > t + DEFAULT_TOKEN_REFRESH_BUFFER_MS

\* getValidCredentials(false) of p goes on after its file read, which gave a
\* credential.
ResolvesUnforced(p) ==
  /\ pc[p] = "readDone" /\ pc'[p] # "readDone"
  /\ ~force[p] /\ current[p].ok

\* C5: getValidCredentials(false) on a file credential that is fresh returns
\* exactly that credential, makes no token-endpoint call and leaves the
\* credential file and the refresh slot unchanged.
C5_ValidReturnedAsIs ==
  [][\A p \in Procs :
       (ResolvesUnforced(p) /\ FreshAt(current[p].cred, now))
         => /\ cred'[p] = current[p].cred
            /\ pc'[p] \in {"listening", "fetch"}
            /\ nOps' = nOps /\ ops' = ops
            /\ credFile' = credFile /\ slot' = slot]_vars

\* C5 witness: a request sent its outbound call with the credential of the
\* file, no refresh operation having ever been started.
C5_Witness ==
  \E p \in Requests :
    /\ pc[p] = "fetch" /\ ~force[p]
    /\ current[p].ok /\ cred[p] = current[p].cred /\ credFile.cred = cred[p]
    /\ nOps = 0 /\ slot = 0

\* The credential is stale whatever the time: no access_token, no
\* expiry_date, or expiry_date <= refreshBufferMs.
AlwaysStale(c) ==
  \/ ~Has(c.access_token)
  \/ ~Has(c.expiry_date)
  \/ Val(c.expiry_date) <= DEFAULT_TOKEN_REFRESH_BUFFER_MS

StaleAt(c, t) ==
  \/ ~Has(c.access_token)
  \/ ~Has(c.expiry_date)
  \/ Val(c.expiry_date) <= t + DEFAULT_TOKEN_REFRESH_BUFFER_MS

\* C6 as stated: a getValidCredentials(false) call that ran alone on a stale
\* file credential made exactly one refresh network call and the file holds
\* the credential it returned.
C6_Original ==
  \A p \in Procs :
    (/\ Returned(p) /\ ~force[p] /\ peers[p] = {}
     /\ current[p].ok /\ AlwaysStale(current[p].cred))
      => /\ started[p] = 1
         /\ credFile = File(cred[p], TRUE)
         /\ TruthyStr(cred[p].access_token)

\* C6 amended: on a stale file credential that has a refresh_token, a
\* getValidCredentials(false) call with no other call in progress starts
\* exactly one refresh network call; when that refresh succeeds the call
\* returns the refreshed credential, which is then the content of the
\* credential file; when it fails the call fails.  Without a refresh_token
\* the call fails with no network call.
C6_StaleRefreshedOnce ==
  [][\A p \in Procs :
       /\ (ResolvesUnforced(p) /\ StaleAt(current[p].cred, now) /\ slot = 0)
            => IF TruthyStr(current[p].cred.refresh_token)
               THEN /\ nOps' = nOps + 1
                    /\ pc'[p] = "waiting"
                    /\ awaiting'[p] = nOps' /\ slot' = nOps'
                    /\ ops'[nOps'].pc = "fetch"
               ELSE /\ nOps' = nOps /\ ops' = ops /\ slot' = slot
                    /\ pc'[p] \in {"exit", "done"}
       /\ (pc[p] = "waiting" /\ pc'[p] # "waiting" /\ ~force[p] /\ peers[p] = {})
            => /\ nOps' = nOps
               /\ started[p] = 1
               /\ IF ops[awaiting[p]].outcome.ok
                  THEN /\ cred'[p] = ops[awaiting[p]].outcome.cred
                       /\ credFile' = File(cred'[p], TRUE)
                       /\ pc'[p] \in {"listening", "fetch"}
                  ELSE pc'[p] \in {"exit", "done"}]_vars

\* C6 witness: the boot call found a file without access_token, made the one
\* refresh call and the file now holds the credential it returned.
C6_Witness ==
  /\ pc[Boot] = "listening"
  /\ ~Has(current[Boot].cred.access_token)
  /\ started[Boot] = 1 /\ nOps = 1
  /\ credFile = File(cred[Boot], TRUE)
  /\ cred[Boot].access_token = Some(FreshToken(1))

\* C7: at every point of saveCredentials, a crash between the write of the
\* temporary file and the rename included, the credential file holds a
\* complete serialization: it changes only by the rename of a completely
\* written temporary file, from the prior content to the new one, and no
\* readCredentials ever reads a partial file.
C7_AtomicPersistence ==
  /\ [](/\ credFile.whole
        /\ \A p \in Procs : current[p].err.code # "credentials_parse_failed")
  /\ [][credFile' # credFile
          => \E k \in OpIds :
               /\ ops[k].pc = "rename" /\ ops[k].tmp = "full"
               /\ credFile' = File(ops[k].next, TRUE)]_vars

\* C7 witness: the process stopped between the write of the temporary file
\* and the rename, a reader having read the file meanwhile: the file is the
\* complete prior content.
C7_Witness ==
  /\ ~alive
  /\ \E k \in OpIds :
       /\ ops[k].pc = "rename" /\ ops[k].tmp = "full"
       /\ credFile.whole /\ credFile.cred = ops[k].current
       /\ credFile.cred # ops[k].next
       /\ \E p \in Requests : pc[p] = "readDone" /\ current[p] = Ok(credFile.cred)

\* The Authorization header is "Bearer <key>" with the configured key.
CarriesKey(h) ==
  /\ Has(h)
  /\ Val(h).scheme \in {"Bearer", "bearer", "BEARER"}
  /\ Val(h).sep >= 1
  /\ Val(h).token = LocalApiKey

IsHealthz(r) == r.method = "GET" /\ r.path = <<"healthz">>

\* Nothing was done for the request of p beyond the front door.
Untouched(p) ==
  /\ nChunks[p] = 0 /\ totalSize[p] = 0
  /\ reads[p] = 0 /\ started[p] = 0 /\ forcedCalls[p] = 0 /\ outCalls[p] = 0
  /\ awaiting[p] = 0 /\ upStatus[p] = <<>>

C9_HealthzAlwaysOk ==
  \A p \in Requests :
    (pc[p] # "idle" /\ IsHealthz(req[p]))
      => /\ pc[p] = "done"
         /\ res[p] = JsonRes(200, "status_ok")
         /\ Untouched(p)

\* C9 witness: GET /healthz was answered 200 without a header and with a
\* wrong key.
C9_Witness ==
  \E p, q \in Requests :
    /\ IsHealthz(req[p]) /\ IsHealthz(req[q])
    /\ req[p].auth = None
    /\ req[q].auth = Some(AuthHeader("Bearer", 1, "wrong"))
    /\ res[p].status = Some(200) /\ res[q].status = Some(200)

\* C10 as stated: a forwarded request whose refresh failed at the network
\* level is answered 502 with error type api_error.
C10_Original ==
  \A p \in Requests :
    (res[p].kind = "error" /\ res[p].code = "refresh_network_error")
      => res[p].status = Some(502) /\ res[p].type = "api_error"

\* C11 as stated: a forwarded request whose refresh got a 2xx answer that is
\* malformed JSON or lacks a string access_token is answered 502 or 401 with
\* error type api_error.
C11_Original ==
  \A p \in Requests :
    (res[p].kind = "error"
     /\ res[p].code \in {"refresh_parse_failed", "refresh_missing_access_token"})
      => res[p].status \in {Some(502), Some(401)} /\ res[p].type = "api_error"

\* The status surfaced for a token-endpoint status s.
Surfaced(s) == IF s >= 500 THEN 502 ELSE s

\* C12: when the token endpoint answers a refresh with a non-2xx status s,
\* the refresh fails with RefreshFailed carrying s, and the client of the
\* forwarded request receives 502 if s >= 500 and s otherwise, with type
\* authentication_error exactly when the surfaced status is 401 and
\* api_error otherwise.
C12_RefreshFailedStatus ==
  /\ [](\A p \in Requests :
         (pc[p] = "done" /\ awaiting[p] # 0
          /\ ops[awaiting[p]].outcome.err.code = "refresh_failed")
           => LET s == Val(ops[awaiting[p]].outcome.err.statusCode) IN
                /\ s \notin 200..299
                /\ res[p].kind = "error" /\ res[p].code = "refresh_failed"
                /\ res[p].status = Some(Surfaced(s))
                /\ res[p].type = IF Surfaced(s) = 401 THEN "authentication_error"
                                 ELSE "api_error")
  /\ [][\A k \in OpIds :
          (ops[k].pc = "text" /\ ops[k].status \notin 200..299
           /\ ops'[k].pc = "settled" /\ ops'[k].outcome.err.class = "oauth")
            => ops'[k].outcome = Fail(OAuthCredentialsError("refresh_failed",
                                                           Some(ops[k].status)))]_vars

\* C12 witness: the token endpoint answered 500 and the client of the
\* forwarded request has a 502 api_error.
C12_Witness ==
  \E p \in Requests :
    /\ pc[p] = "done" /\ awaiting[p] # 0
    /\ ops[awaiting[p]].outcome.err = OAuthCredentialsError("refresh_failed", Some(500))
    /\ res[p] = ErrorRes(502, "api_error", "refresh_failed")

\* getValidCredentials of p goes on after its file read, which gave a
\* credential that needs a refresh and has no refresh_token.
NeedsRefreshNoToken(p) ==
  /\ pc[p] = "readDone" /\ pc'[p] # "readDone"
  /\ current[p].ok
  /\ force[p] \/ StaleAt(current[p].cred, now)
  /\ ~Has(current[p].cred.refresh_token)

\* C13: when a refresh is needed, the token being invalid or the refresh
\* forced, and the credential on disk has no refresh_token, the call fails
\* with MissingRefreshToken: no token-endpoint call is made, the refresh slot
\* and the credential file stay as they are, and a forwarded request is
\* answered 401 authentication_error with no outbound call for that attempt.
C13_MissingRefreshToken ==
  [][\A p \in Procs :
       NeedsRefreshNoToken(p)
         => /\ nOps' = nOps /\ ops' = ops
            /\ slot' = slot /\ credFile' = credFile
            /\ started'[p] = started[p] /\ awaiting'[p] = 0
            /\ outCalls'[p] = outCalls[p]
            /\ IF p = Boot
               THEN pc'[p] = "exit"
               ELSE /\ pc'[p] = "done"
                    /\ res'[p] = ErrorRes(401, "authentication_error",
                                          "missing_refresh_token")]_vars

\* C13 witness: the upstream refused a still valid access_token with 401 and
\* the forced refresh found no refresh_token: the client has a 401 after one
\* outbound call, and no token-endpoint call was ever made.
C13_Witness ==
  \E p \in Requests :
    /\ pc[p] = "done" /\ force[p] /\ forcedCalls[p] = 1
    /\ upStatus[p] = <<401>> /\ outCalls[p] = 1
    /\ res[p] = ErrorRes(401, "authentication_error", "missing_refresh_token")
    /\ nOps = 0 /\ slot = 0

\* C14: a request with a method other than GET and HEAD whose body is of
\* exactly the cap is accepted and forwarded; a body one byte larger fails
\* the request with 413 request_body_too_large (invalid_request_error) before
\* any credential read, refresh or outbound call; GET and HEAD requests never
\* read a body.
C14_BodyCap ==
  \A p \in Requests :
    /\ req[p].method \in {"GET", "HEAD"}
         => nChunks[p] = 0 /\ totalSize[p] = 0 /\ pc[p] # "body"
    /\ totalSize[p] > MAX_REQUEST_BODY_BYTES
         => /\ pc[p] = "done"
            /\ res[p] = ErrorRes(413, "invalid_request_error", "request_body_too_large")
            /\ reads[p] = 0 /\ started[p] = 0 /\ awaiting[p] = 0 /\ outCalls[p] = 0
    /\ totalSize[p] <= MAX_REQUEST_BODY_BYTES
         => /\ res[p].status # Some(413)
            /\ (nChunks[p] > 0 /\ pc[p] # "body") => reads[p] >= 1

\* C14 witness: a POST with a body of exactly the cap has its outbound call
\* under way while a POST with one byte more was answered 413.
C14_Witness ==
  \E p, q \in Requests :
    /\ req[p].method = "POST" /\ req[q].method = "POST"
    /\ totalSize[p] = MAX_REQUEST_BODY_BYTES /\ pc[p] = "fetch" /\ outCalls[p] = 1
    /\ totalSize[q] = MAX_REQUEST_BODY_BYTES + 1 /\ res[q].status = Some(413)

NotForwarded == HOP_BY_HOP_HEADERS \cup {"host", "content-length"}

\* The Authorization entries of a header set.
Authorization(h) == {e \in h : toLowerCase(e.name) = "authorization"}

\* C16: on every outbound attempt the Authorization header is "Bearer "
\* followed by the access_token of the credential that the attempt's own
\* getValidCredentials call returned; the inbound Authorization value, host,
\* content-length and the hop-by-hop headers of the inbound request are not
\* in the outbound header set, in whatever case the request wrote them.
C16_OutboundHeaders ==
  /\ [](\A p \in Requests :
         pc[p] = "fetch"
           => /\ Authorization(sent[p]) =
                   {HeaderEntry("authorization", "Bearer " \o Val(cred[p].access_token))}
              /\ \A e \in sent[p] :
                   /\ e.name \notin NotForwarded
                   /\ toLowerCase(e.name) \notin NotForwarded
                   /\ e.value # AuthValue(Val(req[p].auth))
                   /\ e.value # LocalApiKey)
  /\ [][\A p \in Requests :
          (pc[p] # "fetch" /\ pc'[p] = "fetch")
            => LET c == IF pc[p] = "waiting" THEN ops[awaiting[p]].outcome.cred
                        ELSE current[p].cred
               IN Authorization(sent'[p]) =
                    {HeaderEntry("authorization", "Bearer " \o Val(c.access_token))}]_vars

\* C16 witness: the retry of a request written with headers in mixed case
\* goes out with the token of the forced refresh and the end-to-end headers
\* of the request.
C16_Witness ==
  \E p \in Requests :
    /\ pc[p] = "fetch" /\ outCalls[p] = 2 /\ upStatus[p] = <<401>>
    /\ HeaderEntry("Connection", Some("upgrade")) \in inHeaders
    /\ sent[p] = { HeaderEntry("authorization", "Bearer " \o FreshToken(awaiting[p])),
                   HeaderEntry("user-agent", "curl/8"),
                   HeaderEntry("x-request-id", "r1") }

\* The last getValidCredentials call of p returned a credential and p went on.
CallSucceeded(p) == pc[p] \in {"listening", "fetch", "relay"}

\* C17: every getValidCredentials call that returns, through the valid-token
\* path or through a refresh, returns a credential whose access_token is a
\* non-empty string, and no request ever fails with the forwarder's
\* missing_access_token.
C17_AccessTokenPresent ==
  \A p \in Procs :
    /\ CallSucceeded(p)
         => Has(cred[p].access_token) /\ Val(cred[p].access_token) # ""
    /\ res[p].code # "missing_access_token"

\* C17 witness: a token endpoint answer without access_token has been
\* refused, and a later request got its token from a refresh.
C17_Witness ==
  /\ \E k \in OpIds :
       ops[k].outcome.err.code = "refresh_missing_access_token"
  /\ pc[First] = "fetch" /\ awaiting[First] # 0
  /\ cred[First].access_token = Some(FreshToken(awaiting[First]))

\* C18 as stated: every credential file the gateway has written contains
\* exactly the keys access_token, refresh_token, token_type, expiry_date and
\* resource_url.
C18_Original ==
  \A k \in OpIds :
    ops[k].tmp = "renamed"
      => SerializedKeys(credFile.cred) =
           {"access_token", "refresh_token", "token_type", "expiry_date", "resource_url"}

\* C19: normalizeResourceUrl applied to its own result gives that result
\* again, for every argument: absent, empty, with or without scheme, with
\* query, fragment, trailing slashes or a path that ends in /v1; and every
\* result ends in the path segment /v1, with no slash after it.
C19_NormalizeIdempotent ==
  \A i \in 1..Len(normalized) :
    /\ normalized[i] = normalized[1]
    /\ Len(normalized[i]) >= 4
    /\ normalized[i][Len(normalized[i]) - 1] = "/"
    /\ normalized[i][Len(normalized[i])] = "v1"
    /\ \A j \in 1..Len(normalized[i]) :
         ~IsSearch(normalized[i][j]) /\ ~IsHash(normalized[i][j]) /\ normalized[i][j] # " "

\* C19 witness: a URL without scheme, with blanks around it, a host in upper
\* case, a path that ends in /v1 and slashes, a query and a fragment, has been
\* normalized twice, to the same canonical form.
C19_Witness ==
  /\ resourceUrl = Some(<<" ", "Portal.Qwen.AI", "/", "api", "/", "v1", "/",
                          "?q=1", "#f", " ">>)
  /\ normalized = << <<"https://", "portal.qwen.ai", "/", "api", "/", "v1">>,
                     <<"https://", "portal.qwen.ai", "/", "api", "/", "v1">> >>

\* No refresh operation is outstanding.
NoneOutstanding == \A k \in OpIds : ops[k].pc \in {"none", "settled"}

\* C20: once a refresh operation has settled, with success or with any
\* failure, the refresh slot no longer holds it when a later
\* getValidCredentials call looks at the slot: a call that needs a refresh
\* then starts a new operation, and no call ever begins to wait for an
\* operation that has settled.
C20_SlotClearedOnSettle ==
  /\ [](\A k \in OpIds : (ops[k].pc = "settled" /\ mq = <<>>) => slot # k)
  /\ [][\A p \in Procs :
          (pc[p] = "readDone" /\ pc'[p] = "waiting")
            => /\ ops[awaiting'[p]].pc # "settled"
               /\ ops'[awaiting'[p]].pc \notin {"none", "settled"}
               /\ NoneOutstanding
                    => /\ nOps' = nOps + 1 /\ awaiting'[p] = nOps'
                       /\ slot' = nOps' /\ ops'[nOps'].pc = "fetch"]_vars

\* C20 witness: one operation settled with success, the next with a
\* failure, and the call after that has started a third.
C20_Witness ==
  /\ ops[1].pc = "settled" /\ ops[1].outcome.ok
  /\ ops[2].pc = "settled" /\ ~ops[2].outcome.ok
  /\ ops[3].pc = "fetch" /\ slot = 3
  /\ \E p \in Requests : pc[p] = "waiting" /\ awaiting[p] = 3

\* The operation is outstanding: started and not settled.
Outstanding(k) == ops[k].pc \notin {"none", "settled"}

\* C21: a getValidCredentials call that needs a refresh and finds a refresh
\* operation outstanding makes no token-endpoint call of its own, completes
\* only after that operation has settled, and completes with its outcome:
\* the same credential on success, the same error on failure.
C21_WaiterGetsOutcome ==
  [][\A p \in Procs :
       /\ (pc[p] = "readDone" /\ pc'[p] = "waiting" /\ slot # 0 /\ Outstanding(slot))
            => /\ awaiting'[p] = slot /\ slot' = slot
               /\ nOps' = nOps /\ started'[p] = started[p]
               /\ ops'[slot].pc = ops[slot].pc
       /\ (pc[p] = "waiting" /\ pc'[p] # "waiting")
            => /\ ops[awaiting[p]].pc = "settled"
               /\ nOps' = nOps
               /\ LET o == ops[awaiting[p]].outcome IN
                    IF o.ok
                    THEN cred'[p] = o.cred /\ pc'[p] \in {"listening", "fetch"}
                    ELSE IF p = Boot THEN pc'[p] = "exit"
                    ELSE /\ pc'[p] = "done"
                         /\ res'[p].kind = "error"
                         /\ res'[p].code = IF o.err.class = "other" THEN "internal_error"
                                           ELSE o.err.code]_vars

\* C21 witness: a request joined the refresh operation another request had
\* started; the operation failed and both were answered with its error.
C21_Witness ==
  \E p, q \in Requests :
    /\ p # q /\ started[p] = 1 /\ started[q] = 0 /\ nOps = 1
    /\ awaiting[p] = 1 /\ awaiting[q] = 1
    /\ pc[p] = "done" /\ pc[q] = "done"
    /\ res[q] = ErrorRes(401, "authentication_error", "refresh_failed")
    /\ res[p] = res[q]

\* C22: after a first upstream response of 401 the retry is sent only when
\* the forced getValidCredentials call has returned; that call never returns
\* the credential it read, it awaits a refresh operation that is unsettled
\* when the call reaches it (so it settles after the 401), and the retry's
\* bearer token is the access_token of that operation's outcome.  When the
\* forced refresh fails the request ends without a second outbound call,
\* and no request makes a second forced call.
C22_RetryUsesForcedRefresh ==
  [][\A p \in Requests :
       /\ forcedCalls'[p] <= 1
       /\ (outCalls[p] = 1 /\ outCalls'[p] = 2)
            => /\ upStatus[p] = <<401>> /\ force[p] /\ forcedCalls[p] = 1
               /\ pc[p] = "waiting" /\ pc'[p] = "fetch"
               /\ ops[awaiting[p]].pc = "settled" /\ ops[awaiting[p]].outcome.ok
               /\ Authorization(sent'[p]) =
                    {HeaderEntry("authorization",
                       "Bearer " \o Val(ops[awaiting[p]].outcome.cred.access_token))}
       /\ (force[p] /\ pc[p] = "readDone" /\ pc'[p] # "readDone")
            => /\ outCalls'[p] = 1
               /\ \/ pc'[p] = "done" /\ res'[p].kind = "error"
                  \/ pc'[p] = "waiting" /\ ops'[awaiting'[p]].pc \notin {"none", "settled"}
       /\ (force[p] /\ pc[p] = "waiting" /\ pc'[p] # "waiting"
             /\ ~ops[awaiting[p]].outcome.ok)
            => /\ pc'[p] = "done" /\ outCalls'[p] = 1 /\ res'[p].kind = "error"
               /\ reads'[p] = 2 /\ nOps' = nOps
       /\ (pc[p] = "done" /\ forcedCalls[p] = 1)
            => reads'[p] \in {0, reads[p]}]_vars

\* C22 witness: one request has sent its retry with the token of the
\* forced refresh it awaited, another has ended after its forced refresh
\* failed, having made one outbound call.
C22_Witness ==
  \E p, q \in Requests :
    /\ pc[p] = "fetch" /\ outCalls[p] = 2 /\ upStatus[p] = <<401>>
    /\ current[p].ok /\ isTokenValid(current[p].cred, now)
    /\ cred[p].access_token # current[p].cred.access_token
    /\ pc[q] = "done" /\ forcedCalls[q] = 1 /\ outCalls[q] = 1
    /\ res[q] = ErrorRes(401, "authentication_error", "refresh_failed")

\* The fields a refresh carries over from the prior credential.
CarriedFields == {"refresh_token", "token_type", "resource_url"}

\* C23: the credential a successful refresh builds has the answer's
\* access_token; its refresh_token, token_type and resource_url are the
\* answer's value when that is a string and the prior credential's value
\* otherwise; its expiry_date is now + expires_in * 1000 when expires_in is
\* a positive number and now + 3600 * 1000 otherwise.  That credential is
\* the one renamed over the credential file and the one the refresh
\* operation, and the call awaiting it, returns.
C23_NextCredentials ==
  [][/\ \A k \in OpIds :
          /\ (ops[k].pc = "text" /\ ops'[k].pc = "mkdir")
               => LET c == ops[k].current
                      d == ops'[k].data
                      n == ops'[k].next
                  IN /\ IsString(d.access_token) /\ n.access_token = d.access_token
                     /\ \A f \in CarriedFields :
                          /\ IsString(d[f]) => n[f] = d[f]
                          /\ ~IsString(d[f]) => n[f] = c[f]
                     /\ (IsNumber(d.expires_in) /\ d.expires_in[1] > 0)
                          => n.expiry_date = Some(now + d.expires_in[1] * 1000)
                     /\ ~(IsNumber(d.expires_in) /\ d.expires_in[1] > 0)
                          => n.expiry_date = Some(now + 3600 * 1000)
          /\ (ops[k].pc \in {"mkdir", "write", "rename"} /\ ops'[k].pc # "settled")
               => ops'[k].next = ops[k].next
          /\ (ops[k].tmp = "full" /\ ops'[k].tmp = "renamed")
               => credFile' = File(ops[k].next, TRUE)
          /\ (ops[k].pc = "rename" /\ ops'[k].pc = "settled" /\ ops'[k].outcome.ok)
               => /\ ops'[k].outcome.cred = ops[k].next
                  /\ credFile = File(ops[k].next, TRUE)
     /\ \A p \in Procs :
          (pc[p] = "waiting" /\ pc'[p] # "waiting" /\ ops[awaiting[p]].outcome.ok)
            => /\ cred'[p] = ops[awaiting[p]].outcome.cred
               /\ credFile' = File(cred'[p], TRUE)]_vars

\* C23 witness: the answer has a new refresh_token, a token_type that is no
\* string and a negative expires_in; the credential built carries the prior
\* token_type and resource_url, expires in an hour, and is on disk.
C23_Witness ==
  \E k \in OpIds :
    /\ ops[k].pc = "rename" /\ ops[k].tmp = "renamed" /\ now = TickMs
    /\ ops[k].data = TokenData(Some(FreshToken(k)), Some("rt1"), Untyped("bearer"),
                               Some(0 - 60), None)
    /\ ops[k].next = QwenCredentials(Some(FreshToken(k)), Some("rt1"), Some("Bearer"),
                                     Some(TickMs + 3600000), Some("portal.qwen.ai"))
    /\ credFile = File(ops[k].next, TRUE)

\* Everything of the requests other than p, and the refresh operations,
\* are left as they are by the step.
OthersUntouched(p) ==
  /\ ops' = ops /\ slot' = slot /\ mq' = mq /\ nOps' = nOps
  /\ \A q \in Procs \ {p} :
       pc'[q] = pc[q] /\ res'[q] = res[q] /\ timer'[q] = timer[q] /\ sent'[q] = sent[q]

\* C24: each outbound attempt has its own timer: it is armed exactly while
\* that attempt's fetch is pending and disarmed when the attempt returns
\* its response, so no timer can fire during the forced refresh; a timer
\* firing ends only the request whose attempt armed it, a request is
\* answered with upstream_timeout only when its own timer fired, and
\* receiving a response, a 401 that is discarded included, leaves the
\* refresh operations and every other request as they are.
C24_TimerPerAttempt ==
  /\ [](\A p \in Requests : timer[p] = "armed" <=> pc[p] = "fetch")
  /\ [][\A p \in Requests :
          /\ (timer[p] = "armed" /\ timer'[p] = "fired")
               => /\ pc'[p] = "done" /\ OthersUntouched(p)
          /\ Len(upStatus'[p]) > Len(upStatus[p])
               => /\ timer[p] = "armed" /\ timer'[p] = "cleared"
                  /\ OthersUntouched(p)
          /\ (res[p].kind # "error" /\ res'[p].kind = "error"
                /\ res'[p].code = "upstream_timeout")
               => timer[p] = "armed" /\ timer'[p] = "fired"
          /\ (forcedCalls[p] = 1 /\ InCall(p))
               => timer[p] = "cleared" /\ timer'[p] \in {"cleared", "armed"}]_vars

\* C24 witness: the timer of one request's attempt has fired and that
\* request was answered 504, while the retry of another request, sent after
\* its first response was discarded and the forced refresh succeeded, is
\* pending with its own timer armed.
C24_Witness ==
  \E p, q \in Requests :
    /\ timer[q] = "fired" /\ pc[q] = "done"
    /\ res[q] = ErrorRes(504, "api_error", "upstream_timeout")
    /\ upStatus[p] = <<401>> /\ outCalls[p] = 2 /\ pc[p] = "fetch"
    /\ timer[p] = "armed"

\* The request of p carries the local API key and is not GET /healthz.
Authenticated(p) ==
  /\ pc[p] # "idle"
  /\ verifyLocalApiKey(req[p].auth, LocalApiKey)
  /\ ~(req[p].path = <<"healthz">> /\ req[p].method = "GET")

\* The path of p names one of the local models.
KnownModel(p) ==
  /\ Len(req[p].path) = 3
  /\ Has(decodeURIComponent(req[p].path[3]))
  /\ Val(decodeURIComponent(req[p].path[3])) \in LOCAL_OPENAI_MODELS

\* C25 as stated: every authenticated request gets one disposition at the
\* front door.  A models path is answered locally, with 405 when the method
\* is not GET and 404 when the id names no local model; a path that is
\* neither /v1 nor under /v1/ is answered 404; every other request is
\* forwarded, once, and is never answered invalid_proxy_path.
C25_Original ==
  \A p \in Requests :
    Authenticated(p)
      => /\ IsModelsPath(req[p].path)
              => /\ pc[p] = "done" /\ reads[p] = 0 /\ res[p].ended
                 /\ req[p].method # "GET"
                      => res[p] = ErrorRes(405, "invalid_request_error", "method_not_allowed")
                 /\ (req[p].method = "GET" /\ Len(req[p].path) = 2)
                      => res[p] = JsonRes(200, "model_list")
                 /\ (req[p].method = "GET" /\ KnownModel(p))
                      => res[p] = JsonRes(200, "model")
                 /\ (req[p].method = "GET" /\ Len(req[p].path) > 2 /\ ~KnownModel(p))
                      => res[p] = ErrorRes(404, "invalid_request_error", "model_not_found")
         /\ (~IsModelsPath(req[p].path) /\ ~IsProxiedPath(req[p].path))
              => /\ pc[p] = "done" /\ reads[p] = 0
                 /\ res[p] = ErrorRes(404, "invalid_request_error", "not_found")
         /\ (~IsModelsPath(req[p].path) /\ IsProxiedPath(req[p].path))
              => /\ pc[p] \in {"body", "reading", "readDone", "waiting", "fetch",
                               "relay", "done"}
                 /\ StartsWithV1(req[p].path)
                 /\ reads[p] <= 1 /\ outCalls[p] <= 1
                 /\ pc[p] = "done"
                      => /\ res[p].kind \in {"relay", "error"}
                         /\ res[p].code \notin {"invalid_proxy_path", "not_found",
                                                 "method_not_allowed", "model_not_found"}

\* C26 as stated: in every state the refresh slot is non-empty exactly when
\* a refresh operation is unsettled.
C26_Original == (slot # 0) <=> (\E k \in OpIds : Outstanding(k))

\* C26: in every state in which no promise continuation is pending the
\* refresh slot is non-empty exactly when a refresh operation is unsettled,
\* and it holds that operation.  While the continuations of a settled
\* operation are pending no operation is unsettled and the slot is empty or
\* still holds the settled operation; a waiter that resumes clears a slot
\* that is empty or holds the operation it awaited, never a newer one.
C26_SlotIffUnsettled ==
  /\ [](/\ mq = <<>>
            => /\ (slot # 0) <=> (\E k \in OpIds : Outstanding(k))
               /\ slot # 0 => Outstanding(slot)
        /\ mq # <<>>
            => /\ \A k \in OpIds : ~Outstanding(k)
               /\ slot \in {0, awaiting[Head(mq)]})
  /\ [][\A p \in Procs :
          (pc[p] = "waiting" /\ pc'[p] # "waiting")
            => slot \in {0, awaiting[p]} /\ slot' = 0]_vars

\* C26 witness: a waiter of the first operation has resumed and cleared the
\* slot, and the slot now holds a second, unsettled operation started
\* afterwards by the other request.
C26_Witness ==
  \E p, q \in Requests :
    /\ p # q /\ mq = <<>>
    /\ ops[1].pc = "settled" /\ awaiting[q] = 1 /\ started[q] = 0
    /\ pc[q] \in {"fetch", "relay", "done"}
    /\ nOps = 2 /\ slot = 2 /\ Outstanding(2) /\ awaiting[p] = 2

\* The request of p was handed to readRequestBody and proxyRequest.
Forwarded(p) ==
  pc[p] # "idle" /\ FrontDoor(req[p].method, req[p].path, req[p].auth).forward

\* The relay of an upstream response to p has set status and headers.
RelayStarted(p) ==
  /\ pc[p] \in {"relay", "done", "unhandled"}
  /\ upStatus[p] # <<>>
  /\ ~ShouldRetry(upStatus[p][Len(upStatus[p])]) \/ Len(upStatus[p]) = 2

\* C27 as stated: every forwarded request ends with one response, the
\* relayed upstream response or one error envelope; once the relay has set
\* status and headers no error envelope is written for the request; and no
\* failure of a forwarded request leaves the handler unhandled.
C27_Original ==
  \A p \in Requests :
    Forwarded(p)
      => /\ pc[p] # "unhandled"
         /\ pc[p] = "done" => res[p].ended /\ res[p].kind \in {"relay", "error"}
         /\ RelayStarted(p)
              => res[p] = RelayRes(upStatus[p][Len(upStatus[p])], pc[p] = "done")

====
